---- MODULE Spec2Model ----
(***************************************************************************)
(* Model of src/app.py: the Streamlit page that reads a business card with *)
(* Gemini, uploads the photo to Google Drive and appends one row to a      *)
(* Google Sheet.                                                           *)
(*                                                                         *)
(* Every browser session runs the script in its own thread, so the         *)
(* sessions are the processes; the sheet is the one shared object.  A      *)
(* step of a session runs the script up to its next call of an external    *)
(* service; save_to_google_sheets is two steps, the read of the sheet and  *)
(* the append, and its return to the caller a third.                       *)
(*                                                                         *)
(* Python strings that the code searches or concatenates (exception texts, *)
(* Drive links, the link cell) are sequences of one-character strings; a   *)
(* character TLA+ cannot write is spelled by its code point, "U+4E0A".     *)
(* Strings the code only passes along are TLA+ strings.                    *)
(***************************************************************************)
EXTENDS Integers, Sequences, FiniteSets, TLC

VARIABLES
    sheet,          \* the rows of sheet1, the shared ledger
    initial_rows,   \* history: the number of rows the sheet held at the start
    submissions,    \* history: the number of button presses so far
    pc,             \* per session: where its script run stands
    outcome,        \* per session: what the last button handler ended in
    upload_key,     \* per session: st.session_state['upload_key']
    success_msg,    \* per session: st.session_state['success_msg']
    final_image,    \* per session: the image widget's value
    user_note,      \* per session: the note widget's value
    result,         \* per session: local `result` of the handler
    file_name,      \* per session: local `file_name` of the handler
    drive_link,     \* per session: local `drive_link` of the handler
    existing_data,  \* per session: local `existing_data` of save_to_google_sheets
    row,            \* per session: local `row` of save_to_google_sheets
    saved,          \* per session: the value save_to_google_sheets returned
    calls,          \* history, per session: the clients this run has invoked
    reply,          \* history, per session: what the inference service answered
    entry_state     \* history, per session: the session state and the image
                    \* at the last press of the button

vars == <<sheet, initial_rows, submissions, pc, outcome, upload_key, success_msg,
          final_image, user_note, result, file_name, drive_link, existing_data,
          row, saved, calls, reply, entry_state>>

(* ------------------------------ bounds -------------------------------- *)

\* Button presses over all sessions in one behaviour.
MaxSubmissions == 2
\* The sheet starts with 0 .. MaxInitRows rows.
MaxInitRows == 2
\* Longest archive reference handed to save_to_google_sheets directly.
MaxLinkLen == 5

Sessions == {"s1", "s2"}

(* ------------------------- Python values ------------------------------ *)

EmptyObj == [k \in {} |-> 0]

\* None (and JSON null)
PyNone == [kind |-> "none", str |-> "", obj |-> EmptyObj]
\* a str that the code only compares and passes along
PyStr(s) == [kind |-> "str", str |-> s, obj |-> EmptyObj]
\* a dict (a JSON object): a function from its keys to values
PyDict(f) == [kind |-> "dict", str |-> "", obj |-> f]

\* bool(v) of such a value
Truthy(v) ==
    CASE v.kind = "none" -> FALSE
      [] v.kind = "str"  -> v.str # ""
      [] v.kind = "dict" -> DOMAIN v.obj # {}

\* the bug of writing `d.get(key) or default`: a null gives the default too
DictGet_OrDefault(d, key, default) ==
    IF key \in DOMAIN d.obj /\ d.obj[key].kind # "none" THEN d.obj[key] ELSE default

\* d.get(key, default) of a dict d: a key that is present wins, null included
DictGet(d, key, default) ==
    IF key \in DOMAIN d.obj THEN d.obj[key] ELSE default

\* An optional str that the code searches: None, or a sequence of characters.
NoLink == [none |-> TRUE, text |-> <<>>]
Link(t) == [none |-> FALSE, text |-> t]
LinkTruthy(l) == ~l.none /\ Len(l.text) > 0

\* `sub in s` of two str
Contains(sub, s) ==
    \E i \in 0..(Len(s) - Len(sub)) : SubSeq(s, i + 1, i + Len(sub)) = sub

(* ------------------------- get_gemini_response ------------------------ *)

QUOTA_EXCEEDED == PyStr("QUOTA_EXCEEDED")

Text429 == <<"4", "2", "9">>
TextResourceExhausted ==
    <<"R", "e", "s", "o", "u", "r", "c", "e",
      "E", "x", "h", "a", "u", "s", "t", "e", "d">>

\* The answer of the inference service to one request: an exception with
\* the text str(e), or a response whose text json.loads turns into `body`.
Raised(msg) == [raised |-> TRUE, msg |-> msg, body |-> PyNone]
Responded(body) == [raised |-> FALSE, msg |-> <<>>, body |-> body]
NoReply == [raised |-> FALSE, msg |-> <<>>, body |-> PyNone]

\* the bug of testing for "429" alone
IsQuotaError_Only429(msg) == Contains(Text429, msg)

\* line 57
IsQuotaError(msg) ==
    Contains(Text429, msg) \/ Contains(TextResourceExhausted, msg)

\* lines 29-59: the value get_gemini_response returns for an answer
get_gemini_response(answer) ==
    IF answer.raised
    THEN IF IsQuotaError(answer.msg) THEN QUOTA_EXCEEDED ELSE PyNone
    ELSE answer.body

(* ------------------------ upload_image_to_drive ----------------------- *)

\* The answer of Drive to files().create: an exception, or a file resource
\* whose webViewLink is `link` (NoLink when the field is missing).
DriveRaised == [raised |-> TRUE, link |-> NoLink]
DriveCreated(link) == [raised |-> FALSE, link |-> link]

\* lines 62-86
upload_image_to_drive(answer) ==
    IF answer.raised THEN NoLink ELSE answer.link

(* ------------------------ save_to_google_sheets ----------------------- *)

Http == <<"h", "t", "t", "p">>
\* "上傳失敗"
UploadFailedMarker == <<"U+4E0A", "U+50B3", "U+5931", "U+6557">>
\* "名片連結"
LinkLabel == <<"U+540D", "U+7247", "U+9023", "U+7D50">>
HyperlinkOpen == <<"=", "H", "Y", "P", "E", "R", "L", "I", "N", "K", "(", "\"">>
HyperlinkMiddle == <<"\"", ",", " ", "\"">>
HyperlinkClose == <<"\"", ")">>

\* the bug of numbering from the count plus one
NextIndex_PlusOne(existing) == Len(existing) + 1

\* the bug of leaving out the fallback for an empty sheet
NextIndex_NoFallback(existing) == Len(existing)

\* the bug of counting the cells of the first row instead of the rows
NextIndex_Columns(existing) ==
    IF Len(existing) > 0 THEN Len(existing[1]) ELSE 1

\* line 98
NextIndex(existing) ==
    IF Len(existing) > 0 THEN Len(existing) ELSE 1

\* the bug of leaving out the test for "http"
FinalLink_AnyLink(link) ==
    IF LinkTruthy(link)
    THEN HyperlinkOpen \o link.text \o HyperlinkMiddle \o LinkLabel \o HyperlinkClose
    ELSE UploadFailedMarker

\* lines 102-105
FinalLink(link) ==
    IF LinkTruthy(link) /\ Contains(Http, link.text)
    THEN HyperlinkOpen \o link.text \o HyperlinkMiddle \o LinkLabel \o HyperlinkClose
    ELSE UploadFailedMarker

\* strftime("%Y-%m-%d %H:%M:%S") of a clock reading
UploadTime(now) == <<"%Y-%m-%d %H:%M:%S", now>>

\* lines 107-120
BuildRow(existing, data, note, now, link) ==
    << NextIndex(existing),
       DictGet(data, "chinese_name", PyStr("")),
       DictGet(data, "english_name", PyStr("")),
       DictGet(data, "department", PyStr("")),
       DictGet(data, "title", PyStr("")),
       DictGet(data, "mobile", PyStr("")),
       DictGet(data, "phone", PyStr("")),
       DictGet(data, "email", PyStr("")),
       DictGet(data, "address", PyStr("")),
       note,
       UploadTime(now),
       FinalLink(link) >>

(* ------------------------------ inputs -------------------------------- *)

\* what the camera or the uploader widget holds
Images == {PyStr("card.jpg")}
Notes == {"", "met at expo"}
\* readings of datetime.now()
Times == {0, 1}

Keys == {"chinese_name", "english_name", "department", "title",
         "mobile", "phone", "email", "address"}

\* JSON objects the service may answer with
CardFull ==
    PyDict([k \in Keys |-> IF k = "chinese_name" THEN PyStr("Wang") ELSE PyStr("")])
CardPartial ==
    PyDict([k \in {"chinese_name", "email", "company"} |->
               IF k = "email" THEN PyStr("w@x.tw") ELSE PyStr("Wang")])
CardNull ==
    PyDict([k \in Keys |-> IF k = "title" THEN PyNone ELSE PyStr("Lin")])
CardEmpty == PyDict(EmptyObj)
Cards == {CardFull, CardPartial, CardNull, CardEmpty}

\* every JSON value the model lets the service answer with
Bodies == Cards \cup {PyNone, PyStr("QUOTA_EXCEEDED"), PyStr("n/a")}

\* texts of the exceptions raised inside get_gemini_response
ErrorTexts ==
    { Text429,
      <<"e", " ">> \o Text429 \o <<".">>,
      TextResourceExhausted,
      SubSeq(TextResourceExhausted, 1, 16),
      <<"4", "2", " ", "9">>,
      <<"4", "0", "1">>,
      <<>> }

GeminiAnswers ==
    {Raised(m) : m \in ErrorTexts} \cup {Responded(b) : b \in Bodies}

HttpsLink == Link(<<"h", "t", "t", "p", "s", ":", "/", "/", "d", "/", "1">>)
OtherLink == Link(<<"d", "/", "1">>)
DriveLinks == {NoLink, Link(<<>>), HttpsLink, OtherLink}
DriveAnswers == {DriveRaised} \cup {DriveCreated(l) : l \in DriveLinks}

\* the services when nothing fails
HealthyGemini == {Responded(CardFull)}
HealthyDrive == {DriveCreated(HttpsLink)}

\* every archive reference of at most MaxLinkLen characters, and None
LinkAlphabet == {"h", "t", "p"}
AllLinks ==
    {NoLink} \cup {Link(t) : t \in UNION {[1..n -> LinkAlphabet] : n \in 0..MaxLinkLen}}

(* --------------------------- the button handler ----------------------- *)

\* "%Y%m%d_%H%M%S"
\* line 174
FileName(r, now) ==
    <<"U+540D U+7247 _", DictGet(r, "chinese_name", PyStr("U+672A U+547D U+540D")),
      "_", <<"%Y%m%d_%H%M%S", now>>, ".jpg">>

NoFile == <<>>
NoRow == <<>>

\* line 189
SuccessMsg(name) == [kind |-> "str", str |-> "success", obj |-> EmptyObj, file |-> name]
NoMsg == [kind |-> "none", str |-> "", obj |-> EmptyObj, file |-> NoFile]

\* the bug of going on with whatever is not the quota sentinel
AfterExtract_AlwaysArchive(r) ==
    IF r = QUOTA_EXCEEDED THEN "quota_exceeded" ELSE "archiving"

\* lines 167-196: where the handler goes with the value of get_gemini_response
AfterExtract(r) ==
    IF r = QUOTA_EXCEEDED THEN "quota_exceeded"
    ELSE IF Truthy(r)
         THEN IF r.kind = "dict" THEN "archiving" ELSE "crashed"
         ELSE "extraction_failed"

\* the handler without its st.stop(): an upload failure goes on to the sheet
AfterArchive_Continue(link) == "sheets_read"

\* lines 178-182: where the handler goes with the value of upload_image_to_drive
AfterArchive(link) ==
    IF LinkTruthy(link) THEN "sheets_read" ELSE "archive_failed"

\* the locals of a script run before the handler has set them
ResetLocals(p) ==
    /\ result' = [result EXCEPT ![p] = PyNone]
    /\ file_name' = [file_name EXCEPT ![p] = NoFile]
    /\ drive_link' = [drive_link EXCEPT ![p] = NoLink]
    /\ existing_data' = [existing_data EXCEPT ![p] = <<>>]
    /\ row' = [row EXCEPT ![p] = NoRow]
    /\ saved' = [saved EXCEPT ![p] = FALSE]
    /\ calls' = [calls EXCEPT ![p] = <<>>]
    /\ reply' = [reply EXCEPT ![p] = NoReply]

\* the handler ends (the script run is over) in outcome o
Finish(p, o) ==
    /\ pc' = [pc EXCEPT ![p] = "idle"]
    /\ outcome' = [outcome EXCEPT ![p] = o]

\* The user changes a widget: the script runs from the top without the
\* button (lines 17-26 and 132-148).
SelectInput(p) ==
    /\ pc[p] = "idle"
    /\ \E img \in Images \cup {PyNone}, note \in Notes :
          /\ final_image' = [final_image EXCEPT ![p] = img]
          /\ user_note' = [user_note EXCEPT ![p] = note]
    /\ success_msg' = [success_msg EXCEPT ![p] = NoMsg]
    /\ outcome' = [outcome EXCEPT ![p] = "none"]
    /\ ResetLocals(p)
    /\ UNCHANGED <<sheet, initial_rows, submissions, pc, upload_key, entry_state>>

\* the handler without its entry guard
EntryGuard_Skip(image) == "extracting"

\* lines 154-156: the entry guard of the handler
EntryGuard(image) ==
    IF image = PyNone THEN "no_image" ELSE "extracting"

\* The user presses the button: the script runs from the top (lines 17-26)
\* and enters the handler (lines 153-161).
Submit(p) ==
    /\ pc[p] = "idle"
    /\ submissions < MaxSubmissions
    /\ submissions' = submissions + 1
    /\ success_msg' = [success_msg EXCEPT ![p] = NoMsg]
    /\ entry_state' = [entry_state EXCEPT ![p] =
                           [key |-> upload_key[p], msg |-> NoMsg, image |-> final_image[p]]]
    /\ ResetLocals(p)
    /\ IF EntryGuard(final_image[p]) = "extracting"
       THEN /\ pc' = [pc EXCEPT ![p] = "extracting"]
            /\ outcome' = [outcome EXCEPT ![p] = "running"]
       ELSE Finish(p, "no_image")
    /\ UNCHANGED <<sheet, initial_rows, upload_key, final_image, user_note>>

\* lines 163-174 and 195-196: the call of get_gemini_response, answered by
\* one of `answers`, and the branch on its value
Extract(p, answers) ==
    /\ pc[p] = "extracting"
    /\ \E a \in answers, now \in Times :
          LET r == get_gemini_response(a)
              to == AfterExtract(r)
          IN  /\ reply' = [reply EXCEPT ![p] = a]
              /\ result' = [result EXCEPT ![p] = r]
              /\ IF to = "archiving"
                 THEN /\ file_name' = [file_name EXCEPT ![p] = FileName(r, now)]
                      /\ pc' = [pc EXCEPT ![p] = "archiving"]
                      /\ UNCHANGED outcome
                 ELSE /\ Finish(p, to)
                      /\ UNCHANGED file_name
    /\ calls' = [calls EXCEPT ![p] = Append(@, "get_gemini_response")]
    /\ UNCHANGED <<sheet, initial_rows, submissions, upload_key, success_msg,
                   final_image, user_note, drive_link, existing_data, row, saved,
                   entry_state>>

\* lines 176-182: the call of upload_image_to_drive, answered by one of
\* `answers`, and the branch on its value
Archive(p, answers) ==
    /\ pc[p] = "archiving"
    /\ \E a \in answers :
          LET l == upload_image_to_drive(a)
              to == AfterArchive(l)
          IN  /\ drive_link' = [drive_link EXCEPT ![p] = l]
              /\ IF to = "sheets_read"
                 THEN /\ pc' = [pc EXCEPT ![p] = "sheets_read"]
                      /\ UNCHANGED outcome
                 ELSE Finish(p, to)
    /\ calls' = [calls EXCEPT ![p] = Append(@, "upload_image_to_drive")]
    /\ UNCHANGED <<sheet, initial_rows, submissions, upload_key, success_msg,
                   final_image, user_note, result, file_name, existing_data, row,
                   saved, reply, entry_state>>

\* save_to_google_sheets returns ok to its caller
SaveReturns(p, ok) ==
    /\ pc' = [pc EXCEPT ![p] = "save_returned"]
    /\ saved' = [saved EXCEPT ![p] = ok]

\* lines 90-120: save_to_google_sheets is entered, reads the sheet and
\* builds the row
SheetsRead(p) ==
    /\ pc[p] = "sheets_read"
    /\ \E now \in Times :
          row' = [row EXCEPT ![p] =
                     BuildRow(sheet, result[p], user_note[p], now, drive_link[p])]
    /\ existing_data' = [existing_data EXCEPT ![p] = sheet]
    /\ pc' = [pc EXCEPT ![p] = "sheets_append"]
    /\ calls' = [calls EXCEPT ![p] = Append(@, "save_to_google_sheets")]
    /\ UNCHANGED <<sheet, initial_rows, submissions, outcome, upload_key,
                   success_msg, final_image, user_note, result, file_name,
                   drive_link, saved, reply, entry_state>>

\* lines 90-97 and 124-126: save_to_google_sheets is entered and an
\* exception before the row is built makes it return False
SheetsReadFail(p) ==
    /\ pc[p] = "sheets_read"
    /\ SaveReturns(p, FALSE)
    /\ calls' = [calls EXCEPT ![p] = Append(@, "save_to_google_sheets")]
    /\ UNCHANGED <<sheet, initial_rows, submissions, outcome, upload_key,
                   success_msg, final_image, user_note, result, file_name,
                   drive_link, existing_data, row, reply, entry_state>>

\* lines 122-123: append_row, return True
SheetsAppend(p) ==
    /\ pc[p] = "sheets_append"
    /\ sheet' = Append(sheet, row[p])
    /\ SaveReturns(p, TRUE)
    /\ UNCHANGED <<initial_rows, submissions, outcome, upload_key, success_msg,
                   final_image, user_note, result, file_name, drive_link,
                   existing_data, row, calls, reply, entry_state>>

\* lines 122 and 124-126: append_row raises, return False
SheetsAppendFail(p) ==
    /\ pc[p] = "sheets_append"
    /\ SaveReturns(p, FALSE)
    /\ UNCHANGED <<sheet, initial_rows, submissions, outcome, upload_key,
                   success_msg, final_image, user_note, result, file_name,
                   drive_link, existing_data, row, calls, reply, entry_state>>

\* the bug of advancing the session state outside the success branch
AfterSave_AlwaysAdvance(p) ==
    /\ pc[p] = "save_returned"
    /\ success_msg' = [success_msg EXCEPT ![p] = SuccessMsg(file_name[p])]
    /\ upload_key' = [upload_key EXCEPT ![p] = @ + 1]
    /\ IF saved[p]
       THEN /\ pc' = [pc EXCEPT ![p] = "rerun"]
            /\ outcome' = [outcome EXCEPT ![p] = "success"]
       ELSE Finish(p, "write_failed")
    /\ UNCHANGED <<sheet, initial_rows, submissions, final_image, user_note,
                   result, file_name, drive_link, existing_data, row, saved,
                   calls, reply, entry_state>>

\* lines 186-194: the branch of the handler on the value of save_to_google_sheets
AfterSave(p) ==
    /\ pc[p] = "save_returned"
    /\ IF saved[p]
       THEN /\ success_msg' = [success_msg EXCEPT ![p] = SuccessMsg(file_name[p])]
            /\ upload_key' = [upload_key EXCEPT ![p] = @ + 1]
            /\ pc' = [pc EXCEPT ![p] = "rerun"]
            /\ outcome' = [outcome EXCEPT ![p] = "success"]
       ELSE /\ Finish(p, "write_failed")
            /\ UNCHANGED <<success_msg, upload_key>>
    /\ UNCHANGED <<sheet, initial_rows, submissions, final_image, user_note,
                   result, file_name, drive_link, existing_data, row, saved,
                   calls, reply, entry_state>>

\* line 192 and lines 17-26, 132-148: st.rerun() runs the script from the
\* top; the message is shown and cleared, the widgets are new ones
Rerun(p) ==
    /\ pc[p] = "rerun"
    /\ success_msg' = [success_msg EXCEPT ![p] = NoMsg]
    /\ final_image' = [final_image EXCEPT ![p] = PyNone]
    /\ user_note' = [user_note EXCEPT ![p] = ""]
    /\ pc' = [pc EXCEPT ![p] = "idle"]
    /\ UNCHANGED <<sheet, initial_rows, submissions, outcome, upload_key, result,
                   file_name, drive_link, existing_data, row, saved, calls, reply,
                   entry_state>>

(* ------------- save_to_google_sheets called on its own ---------------- *)

\* A caller other than the handler calls save_to_google_sheets(data, note,
\* drive_link) with the arguments it holds.
CallSave(p) ==
    /\ pc[p] = "idle"
    /\ submissions < MaxSubmissions
    /\ submissions' = submissions + 1
    /\ pc' = [pc EXCEPT ![p] = "sheets_read"]
    /\ calls' = [calls EXCEPT ![p] = <<>>]
    /\ UNCHANGED <<sheet, initial_rows, outcome, upload_key, success_msg,
                   final_image, user_note, result, file_name, drive_link,
                   existing_data, row, saved, reply, entry_state>>

\* That caller has the value back.
ReturnToCaller(p) ==
    /\ pc[p] = "save_returned"
    /\ pc' = [pc EXCEPT ![p] = "idle"]
    /\ UNCHANGED <<sheet, initial_rows, submissions, outcome, upload_key,
                   success_msg, final_image, user_note, result, file_name,
                   drive_link, existing_data, row, saved, calls, reply,
                   entry_state>>

(* --------------------------- specifications --------------------------- *)

\* a row the sheet held before the first submission: the header, then rows
\* numbered the way the code numbers them
OldRow(i) ==
    << IF i = 1 THEN 0 ELSE i - 1,
       PyStr("old"), PyStr(""), PyStr(""), PyStr(""), PyStr(""), PyStr(""),
       PyStr(""), PyStr(""), "", UploadTime(0), UploadFailedMarker >>

InitSheet ==
    /\ \E n \in 0..MaxInitRows :
          /\ sheet = [i \in 1..n |-> OldRow(i)]
          /\ initial_rows = n
    /\ submissions = 0

InitSession ==
    /\ pc = [p \in Sessions |-> "idle"]
    /\ outcome = [p \in Sessions |-> "none"]
    /\ upload_key = [p \in Sessions |-> 0]
    /\ success_msg = [p \in Sessions |-> NoMsg]
    /\ final_image = [p \in Sessions |-> PyNone]
    /\ file_name = [p \in Sessions |-> NoFile]
    /\ existing_data = [p \in Sessions |-> <<>>]
    /\ row = [p \in Sessions |-> NoRow]
    /\ saved = [p \in Sessions |-> FALSE]
    /\ calls = [p \in Sessions |-> <<>>]
    /\ reply = [p \in Sessions |-> NoReply]
    /\ entry_state = [p \in Sessions |-> [key |-> 0, msg |-> NoMsg, image |-> PyNone]]

Init ==
    /\ InitSheet
    /\ InitSession
    /\ user_note = [p \in Sessions |-> ""]
    /\ result = [p \in Sessions |-> PyNone]
    /\ drive_link = [p \in Sessions |-> NoLink]

\* one step of session p's script, the services answering from ga and da
Step(p, ga, da) ==
    \/ SelectInput(p)
    \/ Submit(p)
    \/ Extract(p, ga)
    \/ Archive(p, da)
    \/ SheetsRead(p)
    \/ SheetsReadFail(p)
    \/ SheetsAppend(p)
    \/ SheetsAppendFail(p)
    \/ AfterSave(p)
    \/ Rerun(p)

\* One session, hence one writer of the sheet; the services answer anything.
Next == Step("s1", GeminiAnswers, DriveAnswers)

Spec == Init /\ [][Next]_vars

\* Every session at once; the inference service and Drive never fail.
NextRace == \E p \in Sessions : Step(p, HealthyGemini, HealthyDrive)

SpecRace == Init /\ [][NextRace]_vars

\* save_to_google_sheets on its own: one caller, with any record, note and
\* archive reference as its arguments.
InitLedger ==
    /\ InitSheet
    /\ InitSession
    /\ \E data \in {CardFull, CardPartial}, note \in Notes, link \in AllLinks :
          /\ user_note = [p \in Sessions |-> note]
          /\ result = [p \in Sessions |-> data]
          /\ drive_link = [p \in Sessions |-> link]

NextLedger ==
    \/ CallSave("s1")
    \/ SheetsRead("s1")
    \/ SheetsReadFail("s1")
    \/ SheetsAppend("s1")
    \/ SheetsAppendFail("s1")
    \/ ReturnToCaller("s1")

SpecLedger == InitLedger /\ [][NextLedger]_vars

TypeOK ==
    /\ Len(sheet) <= MaxInitRows + MaxSubmissions
    /\ submissions \in 0..MaxSubmissions
    /\ \A p \in Sessions :
          /\ pc[p] \in {"idle", "extracting", "archiving", "sheets_read",
                        "sheets_append", "save_returned", "rerun"}
          /\ outcome[p] \in {"none", "running", "no_image", "quota_exceeded",
                             "extraction_failed", "crashed", "archive_failed",
                             "write_failed", "success"}

(* ------------------------------ properties ---------------------------- *)

Called(p, client) == \E i \in 1..Len(calls[p]) : calls[p][i] = client

\* the positions of the rows appended since the start
Appended == (initial_rows + 1)..Len(sheet)

\* the order of the record's cells in a row, cells 2 to 9
CellKeys == <<"chinese_name", "english_name", "department", "title",
              "mobile", "phone", "email", "address">>

\* Reading a link cell back as a formula: =HYPERLINK("<first>", "<second>")
UpToQuote(s) ==
    LET q == {i \in 1..Len(s) : s[i] = "\""}
    IN  IF q = {} THEN s
        ELSE SubSeq(s, 1, (CHOOSE i \in q : \A j \in q : i <= j) - 1)
Drop(s, n) == SubSeq(s, n + 1, Len(s))
StartsWith(s, t) == Len(s) >= Len(t) /\ SubSeq(s, 1, Len(t)) = t
FirstArgument(cell) == UpToQuote(Drop(cell, Len(HyperlinkOpen)))
AfterFirst(cell) == Drop(cell, Len(HyperlinkOpen) + Len(FirstArgument(cell)))
SecondArgument(cell) == UpToQuote(Drop(AfterFirst(cell), 4))
IsHyperlink(cell) ==
    /\ StartsWith(cell, <<"=", "H", "Y", "P", "E", "R", "L", "I", "N", "K", "(", "\"">>)
    /\ StartsWith(AfterFirst(cell), <<"\"", ",", " ", "\"">>)
    /\ Drop(AfterFirst(cell), 4 + Len(SecondArgument(cell))) = <<"\"", ")">>

C2_NoImageNoCalls ==
    \A p \in Sessions :
        (outcome[p] # "none" /\ entry_state[p].image = PyNone)
        => /\ outcome[p] = "no_image"
           /\ pc[p] = "idle"
           /\ calls[p] = <<>>

C2_Witness ==
    \E p \in Sessions : outcome[p] = "no_image" /\ submissions > 0

\* C3: when the extraction call raises an error whose text contains "429"
\* or "ResourceExhausted", get_gemini_response returns the quota sentinel,
\* the outcome is quota-exceeded and neither Drive nor Sheets is called.
C3_QuotaError ==
    \A p \in Sessions :
        (/\ reply[p].raised
         /\ \/ Contains(<<"4", "2", "9">>, reply[p].msg)
            \/ Contains(TextResourceExhausted, reply[p].msg))
        => /\ result[p] = PyStr("QUOTA_EXCEEDED")
           /\ outcome[p] = "quota_exceeded"
           /\ pc[p] = "idle"
           /\ calls[p] = <<"get_gemini_response">>

C3_Witness ==
    \E p \in Sessions :
        /\ reply[p] = Raised(<<"e", " ", "4", "2", "9", ".">>)
        /\ outcome[p] = "quota_exceeded"

\* C4: the index of an appended row comes from the row count read before
\* the append: 1 for an empty sheet, N for a sheet of N >= 1 rows.
C4_IndexFromRowCount ==
    /\ \A i \in Appended : sheet[i][1] = (IF i - 1 = 0 THEN 1 ELSE i - 1)
    /\ \A p \in Sessions :
          row[p] # NoRow
          => row[p][1] = (IF Len(existing_data[p]) = 0 THEN 1 ELSE Len(existing_data[p]))

C4_Witness ==
    /\ initial_rows = 0
    /\ Len(sheet) = 2
    /\ sheet[1][1] = 1
    /\ sheet[2][1] = 1

\* C5: a row that a session has appended carries the index of the row count
\* that session read, which may be older than the sheet at its append; so
\* two sessions that read the same count append rows of equal index
\* (C5_Witness is that state).
C5_IndexOfStaleCount ==
    \A p \in Sessions :
        (pc[p] = "save_returned" /\ saved[p])
        => \E i \in Appended :
              /\ sheet[i] = row[p]
              /\ Len(existing_data[p]) <= i - 1
              /\ sheet[i][1] = (IF Len(existing_data[p]) = 0 THEN 1
                                ELSE Len(existing_data[p]))

C5_Witness ==
    \E p, q \in Sessions :
        /\ p # q
        /\ saved[p] /\ saved[q]
        /\ existing_data[p] = existing_data[q]
        /\ Len(existing_data[p]) >= 1
        /\ \E i, j \in Appended : i # j /\ sheet[i][1] = sheet[j][1]

\* C6, as the specification states it: a record that get_gemini_response
\* returns has all eight keys, each a string.
C6_AllKeysStrings ==
    \A p \in Sessions :
        (Called(p, "get_gemini_response") /\ ~reply[p].raised /\ result[p].kind = "dict")
        => \A k \in Keys :
              k \in DOMAIN result[p].obj /\ result[p].obj[k].kind = "str"

\* C6, amended: get_gemini_response returns the parsed JSON value as it is
\* (a key the response lacks is missing, a null stays null); it is the row
\* built by save_to_google_sheets that has all eight cells, the empty
\* string for a missing key and the record's value, null included, otherwise.
C6_DefaultsInRowOnly ==
    \A p \in Sessions :
        /\ (Called(p, "get_gemini_response") /\ ~reply[p].raised)
           => result[p] = reply[p].body
        /\ row[p] # NoRow
           => /\ Len(row[p]) = 12
              /\ \A j \in 1..8 :
                    row[p][j + 1] =
                        (IF CellKeys[j] \in DOMAIN result[p].obj
                         THEN result[p].obj[CellKeys[j]]
                         ELSE PyStr(""))

C6_Witness ==
    \E p \in Sessions :
        /\ row[p] # NoRow
        /\ "english_name" \notin DOMAIN result[p].obj
        /\ row[p][3] = PyStr("")
        /\ result[p] = reply[p].body

\* C7: in save_to_google_sheets, a reference that is present and contains
\* "http" gives a HYPERLINK formula whose first argument is that reference
\* and whose second is the fixed label; any other reference gives the
\* failure marker.
C7_LinkCell ==
    \A p \in Sessions :
        row[p] # NoRow
        => IF ~drive_link[p].none /\ Contains(<<"h", "t", "t", "p">>, drive_link[p].text)
           THEN /\ IsHyperlink(row[p][12])
                /\ FirstArgument(row[p][12]) = drive_link[p].text
                /\ SecondArgument(row[p][12]) = <<"U+540D", "U+7247", "U+9023", "U+7D50">>
           ELSE row[p][12] = <<"U+4E0A", "U+50B3", "U+5931", "U+6557">>

C7_Witness ==
    \E p \in Sessions, i \in Appended :
        /\ sheet[i] = row[p]
        /\ Contains(Http, drive_link[p].text)
        /\ drive_link[p].text # Http
        /\ IsHyperlink(sheet[i][12])

\* C8: in one run of the handler the clients are called at most once each
\* and in the order extraction, archive, ledger; the archive only after a
\* record was extracted, the ledger only after the archive call returned a
\* link, and nothing after a quota or extraction failure.
C8_CallOrder ==
    \A p \in Sessions :
        /\ \E n \in 0..3 :
              calls[p] = SubSeq(<<"get_gemini_response", "upload_image_to_drive",
                                  "save_to_google_sheets">>, 1, n)
        /\ Called(p, "upload_image_to_drive")
           => /\ result[p].kind = "dict"
              /\ DOMAIN result[p].obj # {}
        /\ Called(p, "save_to_google_sheets")
           => ~drive_link[p].none /\ drive_link[p].text # <<>>
        /\ outcome[p] \in {"quota_exceeded", "extraction_failed"}
           => calls[p] = <<"get_gemini_response">> /\ pc[p] = "idle"

C8_Witness ==
    \E p \in Sessions :
        /\ outcome[p] = "success"
        /\ calls[p] = <<"get_gemini_response", "upload_image_to_drive",
                        "save_to_google_sheets">>

\* C9: upload_key advances, by exactly 1, and success_msg is set only when
\* save_to_google_sheets returned True; every other outcome leaves both as
\* they were when the handler was entered.
C9_SessionState ==
    \A p \in Sessions :
        /\ outcome[p] \in {"running", "no_image", "quota_exceeded", "extraction_failed",
                           "crashed", "archive_failed", "write_failed"}
           => /\ upload_key[p] = entry_state[p].key
              /\ success_msg[p] = entry_state[p].msg
        /\ outcome[p] = "success"
           => /\ saved[p]
              /\ upload_key[p] = entry_state[p].key + 1
              /\ pc[p] = "rerun" => success_msg[p].kind = "str"

C9_Witness ==
    \E p \in Sessions :
        /\ outcome[p] = "write_failed"
        /\ upload_key[p] = 1
        /\ entry_state[p].key = 1

\* C10, as stated: with one writer the indices of the appended rows go up
\* by 1 from row to row, whatever the size of the sheet at the start.
C10_IndicesIncrease ==
    \A i, j \in Appended : i < j => sheet[j][1] = sheet[i][1] + (j - i)

\* C10, amended: with one writer and a sheet that held at least one row at
\* the start, the indices of the appended rows go up by 1 from row to row.
C10_IndicesIncreaseNonEmpty ==
    initial_rows >= 1
    => \A i, j \in Appended : i < j => sheet[j][1] = sheet[i][1] + (j - i)

C10_Witness ==
    /\ initial_rows >= 1
    /\ Len(sheet) >= initial_rows + 2
    /\ sheet[initial_rows + 2][1] = sheet[initial_rows + 1][1] + 1

====
